---- MODULE Spec2Model ----
(***************************************************************************)
(* Receipt parser of Warranty-Deck (src/lib/ocr.js).                       *)
(*                                                                         *)
(* Text is modelled as a sequence of characters (one-character strings);   *)
(* "\n" is the line break.  The currency signs outside ASCII are the       *)
(* characters "EUR_", "GBP_", "INR_", "JPY_", "PHP_" (one character each).  *)
(* Numbers produced by parseFloat are exact rationals <<num, den>> in      *)
(* lowest terms; JavaScript null is Null.                                  *)
(***************************************************************************)
EXTENDS Integers, Sequences, FiniteSets, TLC

VARIABLES ocrText, tz, now, ticks, returned, page, run

vars == <<ocrText, tz, now, ticks, returned, page, run>>

Null == <<"null">>

----------------------------------------------------------------------------
(* Characters *)

UpperSeq == <<"A","B","C","D","E","F","G","H","I","J","K","L","M",
              "N","O","P","Q","R","S","T","U","V","W","X","Y","Z">>
LowerSeq == <<"a","b","c","d","e","f","g","h","i","j","k","l","m",
              "n","o","p","q","r","s","t","u","v","w","x","y","z">>
DigitSeq == <<"0","1","2","3","4","5","6","7","8","9">>

Upper == {UpperSeq[i] : i \in 1..26}
Lower == {LowerSeq[i] : i \in 1..26}
Digit == {DigitSeq[i] : i \in 1..10}
Space == {" ", "\t", "\n", "\r"}

ToLowerChar(c) ==
  IF c \in Upper THEN LowerSeq[CHOOSE i \in 1..26 : UpperSeq[i] = c] ELSE c

ToUpperChar(c) ==
  IF c \in Lower THEN UpperSeq[CHOOSE i \in 1..26 : LowerSeq[i] = c] ELSE c

toLowerCase(s) == [i \in 1..Len(s) |-> ToLowerChar(s[i])]

toUpperCase(s) == [i \in 1..Len(s) |-> ToUpperChar(s[i])]

DigitVal(c) == (CHOOSE i \in 1..10 : DigitSeq[i] = c) - 1

\* String.prototype.includes
includes(s, sub) ==
  \E i \in 1..(Len(s) - Len(sub) + 1) :
    \A k \in 1..Len(sub) : s[i + k - 1] = sub[k]

\* String.prototype.startsWith
startsWith(s, pre) == Len(s) >= Len(pre) /\ SubSeq(s, 1, Len(pre)) = pre

RECURSIVE join(_, _)
\* Array.prototype.join
join(ss, sep) ==
  IF ss = <<>> THEN <<>>
  ELSE IF Len(ss) = 1 THEN ss[1]
  ELSE ss[1] \o sep \o join(Tail(ss), sep)

----------------------------------------------------------------------------
(* Regular expressions: a backtracking matcher with JavaScript's priority  *)
(* order (greedy quantifiers, alternatives left to right).  Ends(re, s, i) *)
(* is the sequence, in priority order, of the positions after a match of   *)
(* re that starts at position i of s.                                      *)

Cls(S) == [t |-> "set", s |-> S]
Ch(c) == Cls({c})
\* one letter under the /i flag
Ci(c) == Cls({ToLowerChar(c), ToUpperChar(c)})
Cat(rs) == [t |-> "seq", rs |-> rs]
Alt(rs) == [t |-> "alt", rs |-> rs]
\* r{lo,hi}, greedy; hi = -1 is "no upper limit"
Rep(r, lo, hi) == [t |-> "rep", r |-> r, lo |-> lo, hi |-> hi]
Opt(r) == Rep(r, 0, 1)
Star(r) == Rep(r, 0, -1)
Plus(r) == Rep(r, 1, -1)
\* $ without the m flag
EndAnchor == [t |-> "end"]
\* ^ without the m flag
StartAnchor == [t |-> "start"]
\* a literal word, and the same under the /i flag (w in lower case)
Lit(w) == [t |-> "lit", w |-> w, ci |-> FALSE]
LitCi(w) == [t |-> "lit", w |-> w, ci |-> TRUE]

RECURSIVE Ends(_, _, _), EndsSeq(_, _, _), EndsRep(_, _, _, _, _)
RECURSIVE AltOver(_, _, _, _), SeqOver(_, _, _, _), RepOver(_, _, _, _, _, _, _)
Ends(re, s, i) ==
  CASE re.t = "set" -> IF i <= Len(s) /\ s[i] \in re.s THEN <<i + 1>> ELSE <<>>
    [] re.t = "lit" ->
         IF i + Len(re.w) - 1 <= Len(s)
            /\ \A k \in 1..Len(re.w) :
                 \/ s[i + k - 1] = re.w[k]
                 \/ re.ci /\ ToLowerChar(s[i + k - 1]) = re.w[k]
         THEN <<i + Len(re.w)>> ELSE <<>>
    [] re.t = "end" -> IF i = Len(s) + 1 THEN <<i>> ELSE <<>>
    [] re.t = "start" -> IF i = 1 THEN <<i>> ELSE <<>>
    [] re.t = "seq" -> EndsSeq(re.rs, s, i)
    [] re.t = "alt" -> AltOver(re.rs, 1, s, i)
    [] re.t = "rep" -> EndsRep(re.r, re.lo, re.hi, s, i)

\* the alternatives from the k-th on, left to right
AltOver(rs, k, s, i) ==
  IF k > Len(rs) THEN <<>>
  ELSE Ends(rs[k], s, i) \o AltOver(rs, k + 1, s, i)

EndsSeq(rs, s, i) ==
  IF rs = <<>> THEN <<i>>
  ELSE SeqOver(Ends(rs[1], s, i), 1, Tail(rs), s)

\* the rest of a concatenation, after each way es[k..] to match its head
SeqOver(es, k, rest, s) ==
  IF k > Len(es) THEN <<>>
  ELSE EndsSeq(rest, s, es[k]) \o SeqOver(es, k + 1, rest, s)

\* greedy: one more repetition first, stopping here last
EndsRep(r, lo, hi, s, i) ==
  RepOver(IF hi = 0 THEN <<>> ELSE Ends(r, s, i), 1, r,
          IF lo > 0 THEN lo - 1 ELSE 0, IF hi > 0 THEN hi - 1 ELSE hi, s, i)
  \o (IF lo = 0 THEN <<i>> ELSE <<>>)

RepOver(es, k, r, lo, hi, s, i) ==
  IF k > Len(es) THEN <<>>
  ELSE (IF es[k] > i THEN EndsRep(r, lo, hi, s, es[k]) ELSE <<>>)
       \o RepOver(es, k + 1, r, lo, hi, s, i)

\* The characters a match of re can start with, and whether re can match
\* without consuming a character: a match is only looked for where it can
\* start.
RECURSIVE FirstOf(_), FirstOfSeq(_)
FirstOf(re) ==
  CASE re.t = "set" -> [set |-> re.s, empty |-> FALSE]
    [] re.t = "lit" ->
         [set |-> IF re.ci THEN {re.w[1], ToUpperChar(re.w[1])} ELSE {re.w[1]},
          empty |-> FALSE]
    [] re.t \in {"end", "start"} -> [set |-> {}, empty |-> TRUE]
    [] re.t = "seq" -> FirstOfSeq(re.rs)
    [] re.t = "alt" ->
         [set |-> UNION {FirstOf(re.rs[k]).set : k \in 1..Len(re.rs)},
          empty |-> \E k \in 1..Len(re.rs) : FirstOf(re.rs[k]).empty]
    [] re.t = "rep" ->
         [set |-> FirstOf(re.r).set, empty |-> re.lo = 0 \/ FirstOf(re.r).empty]

FirstOfSeq(rs) ==
  IF rs = <<>> THEN [set |-> {}, empty |-> TRUE]
  ELSE LET f == FirstOf(rs[1])
       IN IF f.empty
          THEN [set |-> f.set \cup FirstOfSeq(Tail(rs)).set,
                empty |-> FirstOfSeq(Tail(rs)).empty]
          ELSE f

\* A pattern is a sequence of parts (its top-level concatenation, cut at the
\* capture groups).
Pattern(parts) == [parts |-> parts, first |-> FirstOfSeq(parts)]

NoMatch == [ok |-> FALSE, start |-> 0, ends |-> <<>>]

\* FirstPath is the first way, in priority order, to match all the parts
\* from position i: the end position of every part.
RECURSIVE FirstPath(_, _, _), TryEnds(_, _, _, _)
FirstPath(parts, s, i) ==
  IF parts = <<>> THEN [ok |-> TRUE, start |-> i, ends |-> <<>>]
  ELSE TryEnds(Ends(parts[1], s, i), 1, Tail(parts), s)

TryEnds(es, k, rest, s) ==
  IF k > Len(es) THEN NoMatch
  ELSE LET p == FirstPath(rest, s, es[k])
       IN IF p.ok THEN [ok |-> TRUE, start |-> 0, ends |-> <<es[k]>> \o p.ends]
          ELSE TryEnds(es, k + 1, rest, s)

\* the positions from i on where the pattern matches
MatchStarts(pat, s, i) ==
  {j \in i..(Len(s) + 1) :
     /\ pat.first.empty \/ (j <= Len(s) /\ s[j] \in pat.first.set)
     /\ FirstPath(pat.parts, s, j).ok}

\* RegExp exec from position i on: the leftmost match.
ExecFrom(pat, s, i) ==
  LET starts == MatchStarts(pat, s, i)
  IN IF starts = {} THEN NoMatch
     ELSE LET j == CHOOSE j \in starts : \A k \in starts : j <= k
          IN [ok |-> TRUE, start |-> j, ends |-> FirstPath(pat.parts, s, j).ends]

\* String.prototype.match without the g flag
match(s, pat) == ExecFrom(pat, s, 1)

\* RegExp.prototype.test
test(pat, s) == MatchStarts(pat, s, 1) # {}

\* m[0], and m[k] when part g of the pattern is capture group k
MatchText(s, m) == SubSeq(s, m.start, m.ends[Len(m.ends)] - 1)
Group(s, m, g) ==
  SubSeq(s, IF g = 1 THEN m.start ELSE m.ends[g - 1], m.ends[g] - 1)

\* String.prototype.match with the g flag (patterns that match no empty text)
RECURSIVE MatchAllFrom(_, _, _)
MatchAllFrom(s, pat, i) ==
  LET m == ExecFrom(pat, s, i)
  IN IF ~m.ok THEN <<>>
     ELSE <<MatchText(s, m)>> \o MatchAllFrom(s, pat, m.ends[Len(m.ends)])

matchAll(s, pat) == MatchAllFrom(s, pat, 1)

\* String.prototype.split on a pattern that matches no empty text
RECURSIVE SplitFrom(_, _, _)
SplitFrom(s, pat, i) ==
  LET m == IF i > Len(s) THEN NoMatch ELSE ExecFrom(pat, s, i)
  IN IF ~m.ok THEN <<SubSeq(s, i, Len(s))>>
     ELSE <<SubSeq(s, i, m.start - 1)>>
          \o SplitFrom(s, pat, m.ends[Len(m.ends)])

split(s, pat) == SplitFrom(s, pat, 1)

\* String.prototype.trim
RECURSIVE trimStart(_), trimEnd(_)
trimStart(s) ==
  IF s # <<>> /\ Head(s) \in Space THEN trimStart(Tail(s)) ELSE s
trimEnd(s) ==
  IF s # <<>> /\ s[Len(s)] \in Space THEN trimEnd(SubSeq(s, 1, Len(s) - 1))
  ELSE s
trim(s) == trimEnd(trimStart(s))

----------------------------------------------------------------------------
(* Numbers *)

RECURSIVE GCD(_, _)
GCD(a, b) == IF b = 0 THEN a ELSE GCD(b, a % b)

\* the rational n/d (d > 0) in lowest terms
Rat(n, d) ==
  LET g == GCD(IF n < 0 THEN 0 - n ELSE n, d)
  IN IF n = 0 THEN <<0, 1>> ELSE <<n \div g, d \div g>>

Zero == <<0, 1>>

RatLess(a, b) == a[1] * b[2] < b[1] * a[2]

\* a / b for b # 0
RatDiv(a, b) ==
  IF b[1] > 0 THEN Rat(a[1] * b[2], a[2] * b[1])
  ELSE Rat(0 - a[1] * b[2], 0 - a[2] * b[1])

RECURSIVE Pow10(_)
Pow10(k) == IF k = 0 THEN 1 ELSE 10 * Pow10(k - 1)

RECURSIVE DigitsValue(_)
DigitsValue(ds) ==
  IF ds = <<>> THEN 0
  ELSE 10 * DigitsValue(SubSeq(ds, 1, Len(ds) - 1)) + DigitVal(ds[Len(ds)])

RECURSIVE LeadingDigits(_)
LeadingDigits(s) ==
  IF s # <<>> /\ Head(s) \in Digit THEN <<Head(s)>> \o LeadingDigits(Tail(s))
  ELSE <<>>

\* parseInt of a text that starts with a digit
parseInt(s) == DigitsValue(LeadingDigits(s))

\* parseFloat of a text made of digits, optionally a dot and more digits
parseFloat(s) ==
  LET ip == LeadingDigits(s)
      rest == SubSeq(s, Len(ip) + 1, Len(s))
      fp == IF rest # <<>> /\ Head(rest) = "."
            THEN LeadingDigits(Tail(rest)) ELSE <<>>
  IN Rat(DigitsValue(ip) * Pow10(Len(fp)) + DigitsValue(fp), Pow10(Len(fp)))

\* a.replace(/,/g, '')
RemoveCommas(s) == SelectSeq(s, LAMBDA c : c # ",")

\* Math.max(...xs) for a non-empty xs
RECURSIVE MathMax(_)
MathMax(xs) ==
  IF Len(xs) = 1 THEN xs[1]
  ELSE LET m == MathMax(Tail(xs))
       IN IF RatLess(xs[1], m) THEN m ELSE xs[1]

\* the decimal digits of n >= 0, at least w of them
RECURSIVE ToDigits(_, _)
ToDigits(n, w) ==
  IF n < 10 /\ w <= 1 THEN <<DigitSeq[n + 1]>>
  ELSE ToDigits(n \div 10, w - 1) \o <<DigitSeq[(n % 10) + 1]>>

----------------------------------------------------------------------------
(* Date (the JavaScript Date object, proleptic Gregorian calendar) *)

MsPerDay == 86400000

\* days from 1970-01-01 to the civil date y-m-d (m in 1..12)
DaysFromCivil(y, m, d) ==
  LET yy == IF m <= 2 THEN y - 1 ELSE y
      era == yy \div 400
      yoe == yy - era * 400
      mp == IF m > 2 THEN m - 3 ELSE m + 9
      doy == (153 * mp + 2) \div 5 + d - 1
      doe == yoe * 365 + yoe \div 4 - yoe \div 100 + doy
  IN era * 146097 + doe - 719468

\* the civil date <<y, m, d>> of day z since 1970-01-01
CivilFromDays(z) ==
  LET zz == z + 719468
      era == zz \div 146097
      doe == zz - era * 146097
      yoe == (doe - doe \div 1460 + doe \div 36524 - doe \div 146096) \div 365
      doy == doe - (365 * yoe + yoe \div 4 - yoe \div 100)
      mp == (5 * doy + 2) \div 153
      d == doy - (153 * mp + 2) \div 5 + 1
      m == IF mp < 10 THEN mp + 3 ELSE mp - 9
      y == yoe + era * 400
  IN <<IF m <= 2 THEN y + 1 ELSE y, m, d>>

\* new Date(year, monthIndex, day): local midnight, as the day number of the
\* local calendar day.  Years 0..99 mean 1900..1999; a month index outside
\* 0..11 and a day outside the month roll over into the neighbouring months.
NewDate(year, monthIndex, day) ==
  LET y == IF year >= 0 /\ year <= 99 THEN 1900 + year ELSE year
      months == y * 12 + monthIndex
  IN DaysFromCivil(months \div 12, (months % 12) + 1, 1) + (day - 1)

\* isNaN(date.getTime()): a Date is invalid only outside the time range of
\* ECMAScript (100,000,000 days either side of the epoch)
IsInvalidDate(localDay) == localDay < -100000000 \/ localDay > 100000000

\* The UTC day of the local midnight of localDay, in a zone whose local time
\* is UTC + offset minutes.
UtcDayOfLocalMidnight(localDay, offset) == localDay + ((0 - offset) \div 1440)

\* the date part of toISOString(): YYYY-MM-DD (years 0..9999)
IsoDate(utcDay) ==
  LET c == CivilFromDays(utcDay)
  IN (IF c[1] > 9999 THEN <<"+">> \o ToDigits(c[1], 6) ELSE ToDigits(c[1], 4))
     \o <<"-">> \o ToDigits(c[2], 2) \o <<"-">> \o ToDigits(c[3], 2)

\* date.toISOString().split('T')[0] for a Date built as local midnight
LocalDateToISO(localDay, offset) ==
  IsoDate(UtcDayOfLocalMidnight(localDay, offset))

\* new Date().toISOString().split('T')[0] at the instant clock (ms since epoch)
TodayISO(clock) == IsoDate(clock \div MsPerDay)

----------------------------------------------------------------------------
(* Patterns of src/lib/ocr.js *)

\* \s, \d
WS == Cls(Space)
D == Cls(Digit)
\* [\d,]
DComma == Cls(Digit \cup {","})
\* [\d,]+\.\d{2}
Money == Cat(<<Plus(DComma), Ch("."), Rep(D, 2, 2)>>)

\* /[\d,]+\.\d{2}/g
MoneyPattern == Pattern(<<Money>>)

\* /www\.|\.com|\.org|\.net|https?:\/\//i
UrlPattern ==
  Pattern(<<Alt(<<LitCi(<<"w","w","w",".">>),
                  LitCi(<<".","c","o","m">>),
                  LitCi(<<".","o","r","g">>),
                  LitCi(<<".","n","e","t">>),
                  Cat(<<LitCi(<<"h","t","t","p">>), Opt(Ci("s")),
                        Lit(<<":","/","/">>)>>)>>)>>)

storeKeywords ==
  << <<"s","t","o","r","e">>, <<"m","a","r","t">>, <<"s","h","o","p">>,
     <<"s","u","p","e","r","m","a","r","k","e","t">>,
     <<"e","l","e","c","t","r","o","n","i","c","s">>,
     <<"r","e","t","a","i","l">>, <<"m","a","r","k","e","t">> >>

\* [A-Z0-9] and [A-Z0-9\-] under the /i flag
AlnumCi == Cls(Upper \cup Lower \cup Digit)
AlnumDashCi == Cls(Upper \cup Lower \cup Digit \cup {"-"})

\* /(?:receipt|invoice|bill|txn|trans|order)\s*(?:no\.?|num(?:ber)?|id)?
\*  \s*[:#\-]?\s*([A-Z0-9][A-Z0-9\-]+)/i
ReceiptNumberPattern ==
  Pattern(<<
    Cat(<<Alt(<<LitCi(<<"r","e","c","e","i","p","t">>),
                LitCi(<<"i","n","v","o","i","c","e">>),
                LitCi(<<"b","i","l","l">>),
                LitCi(<<"t","x","n">>), LitCi(<<"t","r","a","n","s">>),
                LitCi(<<"o","r","d","e","r">>)>>),
          Star(WS),
          Opt(Alt(<<Cat(<<LitCi(<<"n","o">>), Opt(Ch("."))>>),
                    Cat(<<LitCi(<<"n","u","m">>), Opt(LitCi(<<"b","e","r">>))>>),
                    LitCi(<<"i","d">>)>>)),
          Star(WS),
          Opt(Cls({":", "#", "-"})),
          Star(WS)>>),
    Cat(<<AlnumCi, Plus(AlnumDashCi)>>)>>)

DateSep == Cls({"/", "-"})

monthNames ==
  << <<"J","a","n">>, <<"F","e","b">>, <<"M","a","r">>, <<"A","p","r">>,
     <<"M","a","y">>, <<"J","u","n">>, <<"J","u","l">>, <<"A","u","g">>,
     <<"S","e","p">>, <<"O","c","t">>, <<"N","o","v">>, <<"D","e","c">> >>

\* the three patterns of parseDate; parts 1, 3 and 5 are groups 1, 2 and 3
DatePatterns ==
  << \* /(\d{1,2})[/\-](\d{1,2})[/\-](\d{2,4})/
     Pattern(<<Rep(D, 1, 2), DateSep, Rep(D, 1, 2), DateSep, Rep(D, 2, 4)>>),
     \* /(\d{4})[/\-](\d{1,2})[/\-](\d{1,2})/
     Pattern(<<Rep(D, 4, 4), DateSep, Rep(D, 1, 2), DateSep, Rep(D, 1, 2)>>),
     \* /(\d{1,2})\s+(Jan|Feb|...|Dec)[a-z]*\s+(\d{2,4})/i
     Pattern(<<Rep(D, 1, 2), Plus(WS),
               Alt([k \in 1..12 |-> LitCi(toLowerCase(monthNames[k]))]),
               Cat(<<Star(Cls(Upper \cup Lower)), Plus(WS)>>),
               Rep(D, 2, 4)>>) >>

\* /tax|vat|gst/, /total/, /sub/, /grand|amount/
TaxPattern ==
  Pattern(<<Alt(<<Lit(<<"t","a","x">>), Lit(<<"v","a","t">>),
                  Lit(<<"g","s","t">>)>>)>>)
TotalPattern == Pattern(<<Lit(<<"t","o","t","a","l">>)>>)
SubPattern == Pattern(<<Lit(<<"s","u","b">>)>>)
GrandPattern ==
  Pattern(<<Alt(<<Lit(<<"g","r","a","n","d">>),
                  Lit(<<"a","m","o","u","n","t">>)>>)>>)

methods ==
  << <<"v","i","s","a">>, <<"m","a","s","t","e","r","c","a","r","d">>,
     <<"a","m","e","x">>, <<"r","u","p","a","y">>, <<"u","p","i">>,
     <<"c","a","s","h">>, <<"d","e","b","i","t">>, <<"c","r","e","d","i","t">>,
     <<"c","a","r","d">> >>

\* /\*{4,}\d{4}/
MaskedCardPattern == Pattern(<<Rep(Ch("*"), 4, -1), Rep(D, 4, 4)>>)

\* Object.entries(symbols): the symbols in insertion order, with their codes
symbols == << <<"$", <<"U","S","D">> >>, <<"EUR_", <<"E","U","R">> >>,
              <<"GBP_", <<"G","B","P">> >>, <<"INR_", <<"I","N","R">> >>,
              <<"JPY_", <<"J","P","Y">> >>, <<"PHP_", <<"P","H","P">> >> >>

totalsKeywords ==
  << <<"s","u","b","t","o","t","a","l">>, <<"t","o","t","a","l">>,
     <<"g","r","a","n","d">>, <<"t","a","x">>, <<"v","a","t">>,
     <<"g","s","t">> >>

\* /([\d,]+\.\d{2})\s*$/
TrailingPricePattern == Pattern(<<Money, Cat(<<Star(WS), EndAnchor>>)>>)
\* /\s{2,}/ and /\s+/
ColumnGap == Pattern(<<Rep(WS, 2, -1)>>)
WordGap == Pattern(<<Plus(WS)>>)
\* /(\d+\.?\d*)x?/i
QtyPattern == Pattern(<<Cat(<<Plus(D), Opt(Ch(".")), Star(D)>>), Opt(Ci("x"))>>)
\* /^[\d,]+\.\d{2}$/
MoneyOnlyPattern == Pattern(<<Cat(<<StartAnchor, Money, EndAnchor>>)>>)

UnknownStore == <<"U","n","k","n","o","w","n"," ","S","t","o","r","e">>
RecPrefix == <<"R","E","C","-">>

----------------------------------------------------------------------------
(* The parser *)

\* ocrText.split('\n')
SplitLines(s) ==
  LET breaks == {i \in 1..Len(s) : s[i] = "\n"}
      \* the k-th break, with position 0 before and Len(s) + 1 after them all
      cuts == [k \in 0..(Cardinality(breaks) + 1) |->
                 IF k = 0 THEN 0
                 ELSE IF k > Cardinality(breaks) THEN Len(s) + 1
                 ELSE CHOOSE i \in breaks :
                        Cardinality({j \in breaks : j < i}) = k - 1]
  IN [k \in 1..(Cardinality(breaks) + 1) |->
        SubSeq(s, cuts[k - 1] + 1, cuts[k] - 1)]

\* ocrText.split('\n').map(line => line.trim()).filter(line => line.length > 0)
NormalizedLines(text) ==
  LET raw == SplitLines(text)
  IN SelectSeq([i \in 1..Len(raw) |-> trim(raw[i])], LAMBDA l : Len(l) > 0)

Min(a, b) == IF a < b THEN a ELSE b

\* (line.match(/[A-Z]/g) || []).length
UpperCount(line) == Cardinality({i \in 1..Len(line) : line[i] \in Upper})

\* upperRatio > 0.5, upperRatio = count of A-Z / Math.max(line.length, 1)
UpperRatioAboveHalf(line) ==
  2 * UpperCount(line) > (IF Len(line) > 1 THEN Len(line) ELSE 1)

hasKeyword(line) ==
  LET lineLower == toLowerCase(line)
  IN \E k \in 1..Len(storeKeywords) : includes(lineLower, storeKeywords[k])

\* StoreStep letting a later qualifying line replace the store name
StoreStep_Replace(st, line) ==
  IF test(UrlPattern, line) THEN [st EXCEPT !.website = line]
  ELSE IF UpperRatioAboveHalf(line) \/ hasKeyword(line)
       THEN [st EXCEPT !.storeName = line]
  ELSE IF st.storeName # Null /\ Len(st.addressParts) < 3
       THEN [st EXCEPT !.addressParts = Append(@, line)]
  ELSE st

\* StoreStep collecting every line after the store name
StoreStep_NoCap(st, line) ==
  IF test(UrlPattern, line) THEN [st EXCEPT !.website = line]
  ELSE IF (UpperRatioAboveHalf(line) \/ hasKeyword(line)) /\ st.storeName = Null
       THEN [st EXCEPT !.storeName = line]
  ELSE IF st.storeName # Null
       THEN [st EXCEPT !.addressParts = Append(@, line)]
  ELSE st

\* one iteration of the loop of extractStoreInfo on the line, from state st
StoreStep(st, line) ==
  IF test(UrlPattern, line) THEN [st EXCEPT !.website = line]
  ELSE IF (UpperRatioAboveHalf(line) \/ hasKeyword(line)) /\ st.storeName = Null
       THEN [st EXCEPT !.storeName = line]
  ELSE IF st.storeName # Null /\ Len(st.addressParts) < 3
       THEN [st EXCEPT !.addressParts = Append(@, line)]
  ELSE st

RECURSIVE StoreLoop(_, _, _)
StoreLoop(lines, i, st) ==
  IF i > Min(10, Len(lines)) THEN st
  ELSE StoreLoop(lines, i + 1, StoreStep(st, lines[i]))

extractStoreInfo(lines) ==
  LET st == StoreLoop(lines, 1,
                      [storeName |-> Null, addressParts |-> <<>>, website |-> Null])
  IN [store_name |-> st.storeName,
      address |-> IF Len(st.addressParts) > 0
                  THEN join(st.addressParts, <<",", " ">>) ELSE Null,
      website |-> st.website]

extractReceiptNumber(text) ==
  LET m == match(text, ReceiptNumberPattern)
  IN IF m.ok THEN Group(text, m, 2) ELSE Null

\* isNaN(s) for a text s: s does not read as a number
IsNaNText(s) == \E i \in 1..Len(s) : s[i] \notin Digit

\* monthNames.findIndex(m => name.substring(0, 3).toLowerCase() === m.toLowerCase())
MonthIndex(name) ==
  LET key == toLowerCase(SubSeq(name, 1, Min(3, Len(name))))
      hits == {k \in 1..12 : toLowerCase(monthNames[k]) = key}
  IN IF hits = {} THEN -1 ELSE (CHOOSE k \in hits : \A h \in hits : k <= h) - 1

\* the Date that the body of the loop of parseDate builds from a match:
\* the day number of its local midnight
DateOfMatch(text, m) ==
  LET m0 == MatchText(text, m)
      m1 == Group(text, m, 1)
      m2 == Group(text, m, 3)
      m3 == Group(text, m, 5)
  IN IF m2 # <<>> /\ IsNaNText(m2)
     THEN LET year == parseInt(m3)
          IN NewDate(IF year < 100 THEN year + 2000 ELSE year,
                     MonthIndex(m2), parseInt(m1))
     ELSE IF startsWith(m0, <<"2", "0">>) \/ Len(m1) = 4
          THEN NewDate(parseInt(m1), parseInt(m2) - 1, parseInt(m3))
          ELSE NewDate(parseInt(m3) + (IF parseInt(m3) < 100 THEN 2000 ELSE 0),
                       parseInt(m1) - 1, parseInt(m2))

RECURSIVE ParseDateFrom(_, _, _)
ParseDateFrom(text, k, offset) ==
  IF k > Len(DatePatterns) THEN Null
  ELSE LET m == match(text, DatePatterns[k])
       IN IF m.ok /\ ~IsInvalidDate(DateOfMatch(text, m))
          THEN LocalDateToISO(DateOfMatch(text, m), offset)
          ELSE ParseDateFrom(text, k + 1, offset)

\* offset: the minutes by which the local time of the runtime is ahead of UTC
parseDate(text, offset) == ParseDateFrom(text, 1, offset)

\* BottomLines reaching one line further up
BottomLines_Sixteen(lines) ==
  SubSeq(lines, IF Len(lines) > 16 THEN Len(lines) - 15 ELSE 1, Len(lines))

\* lines.slice(-15)
BottomLines(lines) ==
  SubSeq(lines, IF Len(lines) > 15 THEN Len(lines) - 14 ELSE 1, Len(lines))

\* amounts ? amounts.map(a => parseFloat(a.replace(/,/g, ''))) : []
parsedAmounts(line) ==
  LET amounts == matchAll(line, MoneyPattern)
  IN [k \in 1..Len(amounts) |-> parseFloat(RemoveCommas(amounts[k]))]

Last(xs) == xs[Len(xs)]

\* the branch of the loop of extractTotals that the line takes:
\* "tax", "total", "grand" or "none"
TotalsBranch(line) ==
  LET lineLower == toLowerCase(line)
  IN IF test(TaxPattern, lineLower) THEN "tax"
     ELSE IF test(TotalPattern, lineLower) /\ ~test(SubPattern, lineLower)
          THEN "total"
     ELSE IF test(GrandPattern, lineLower) THEN "grand"
     ELSE "none"

\* TotalsStep taking the first money token of a tax line
TotalsStep_FirstAmount(st, line) ==
  LET amts == parsedAmounts(line)
      br == TotalsBranch(line)
  IN IF Len(amts) = 0 THEN st
     ELSE IF br = "tax" THEN [st EXCEPT !.taxAmount = amts[1]]
     ELSE IF br \in {"total", "grand"}
          THEN [st EXCEPT !.totalsCandidates = Append(@, Last(amts))]
     ELSE st

\* one iteration of the loop of extractTotals
TotalsStep(st, line) ==
  LET amts == parsedAmounts(line)
      br == TotalsBranch(line)
  IN IF Len(amts) = 0 THEN st
     ELSE IF br = "tax" THEN [st EXCEPT !.taxAmount = Last(amts)]
     ELSE IF br \in {"total", "grand"}
          THEN [st EXCEPT !.totalsCandidates = Append(@, Last(amts))]
     ELSE st

RECURSIVE TotalsLoop(_, _, _)
TotalsLoop(lines, i, st) ==
  IF i > Len(lines) THEN st
  ELSE TotalsLoop(lines, i + 1, TotalsStep(st, lines[i]))

\* extractTotals scanning every line instead of the bottom 15
extractTotals_AllLines(lines) ==
  LET st == TotalsLoop(lines, 1, [taxAmount |-> Null, totalsCandidates |-> <<>>])
  IN [total_amount |-> IF Len(st.totalsCandidates) > 0
                       THEN MathMax(st.totalsCandidates) ELSE Null,
      tax_amount |-> st.taxAmount]

extractTotals(lines) ==
  LET st == TotalsLoop(BottomLines(lines), 1,
                       [taxAmount |-> Null, totalsCandidates |-> <<>>])
  IN [total_amount |-> IF Len(st.totalsCandidates) > 0
                       THEN MathMax(st.totalsCandidates) ELSE Null,
      tax_amount |-> st.taxAmount]

\* the least element of a non-empty set of integers
Least(S) == CHOOSE i \in S : \A j \in S : i <= j

RECURSIVE PaymentFrom(_, _, _)
PaymentFrom(text, textLower, k) ==
  IF k > Len(methods) THEN Null
  ELSE IF includes(textLower, methods[k])
       THEN LET cardMatch == match(text, MaskedCardPattern)
            IN IF cardMatch.ok
               THEN toUpperCase(methods[k]) \o <<" ">> \o MatchText(text, cardMatch)
               ELSE toUpperCase(methods[k])
  ELSE PaymentFrom(text, textLower, k + 1)

\* extractPaymentMethod taking the method that comes first in the text
extractPaymentMethod_FirstInText(text) ==
  LET lower == toLowerCase(text)
      At(k) == {i \in 1..Len(lower) :
                  /\ i + Len(methods[k]) - 1 <= Len(lower)
                  /\ SubSeq(lower, i, i + Len(methods[k]) - 1) = methods[k]}
      hits == {k \in 1..Len(methods) : At(k) # {}}
      cardMatch == match(text, MaskedCardPattern)
  IN IF hits = {} THEN Null
     ELSE LET k == CHOOSE k \in hits :
                     \A j \in hits :
                       \/ Least(At(k)) < Least(At(j))
                       \/ Least(At(k)) = Least(At(j)) /\ k <= j
          IN IF cardMatch.ok
             THEN toUpperCase(methods[k]) \o <<" ">> \o MatchText(text, cardMatch)
             ELSE toUpperCase(methods[k])

extractPaymentMethod(text) == PaymentFrom(text, toLowerCase(text), 1)

RECURSIVE CurrencyFrom(_, _)
CurrencyFrom(text, k) ==
  IF k > Len(symbols) THEN Null
  ELSE IF includes(text, <<symbols[k][1]>>) THEN symbols[k][2]
  ELSE CurrencyFrom(text, k + 1)

\* inferCurrency taking the symbol that comes first in the text
inferCurrency_FirstInText(text) ==
  LET at == {i \in 1..Len(text) :
               \E k \in 1..Len(symbols) : text[i] = symbols[k][1]}
  IN IF at = {} THEN Null
     ELSE LET i == CHOOSE i \in at : \A j \in at : i <= j
          IN symbols[CHOOSE k \in 1..Len(symbols) : text[i] = symbols[k][1]][2]

inferCurrency(text) == CurrencyFrom(text, 1)

hasTotalsKeyword(line) ==
  LET lineLower == toLowerCase(line)
  IN \E k \in 1..Len(totalsKeywords) : includes(lineLower, totalsKeywords[k])

\* ItemsEnd without the cut at the first totals line
ItemsEnd_WholeDocument(lines) == Len(lines)

\* itemsEnd of parseItems, as the number of lines before the first totals line
ItemsEnd(lines) ==
  LET hits == {i \in 1..Len(lines) : hasTotalsKeyword(lines[i])}
  IN IF hits # {} THEN Least(hits) - 1 ELSE Len(lines)

\* parts of parseItems: the columns, or the words when there is one column
ItemParts(line) ==
  LET parts == split(line, ColumnGap)
  IN IF Len(parts) < 2 THEN split(line, WordGap) ELSE parts

\* the loop over parts[1..] of parseItems, from st = [qty, unitPrice]
RECURSIVE PartsLoop(_, _, _, _)
PartsLoop(parts, j, totalPrice, st) ==
  IF j > Len(parts) THEN st
  ELSE LET part == parts[j]
           qtyMatch == match(part, QtyPattern)
           val == parseFloat(RemoveCommas(part))
       IN PartsLoop(parts, j + 1, totalPrice,
            IF qtyMatch.ok
            THEN [st EXCEPT !.qty = parseFloat(Group(part, qtyMatch, 1))]
            ELSE IF test(MoneyOnlyPattern, part)
                    /\ st.unitPrice = Null /\ val # totalPrice
                 THEN [st EXCEPT !.unitPrice = val]
            ELSE st)

\* ItemOfLine leaving the missing unit price at the total price
ItemOfLine_UnitIsTotal(line, serial) ==
  LET priceMatch == match(line, TrailingPricePattern)
      totalPrice == parseFloat(RemoveCommas(Group(line, priceMatch, 1)))
      parts == ItemParts(line)
      st == PartsLoop(parts, 2, totalPrice, [qty |-> <<1, 1>>, unitPrice |-> Null])
  IN [description |-> parts[1],
      quantity |-> st.qty,
      unit_price |-> IF st.unitPrice = Null /\ st.qty[1] > 0
                     THEN totalPrice ELSE st.unitPrice,
      total_price |-> totalPrice,
      serial_no |-> serial]

\* the item that parseItems builds from a line with a trailing price
ItemOfLine(line, serial) ==
  LET priceMatch == match(line, TrailingPricePattern)
      totalPrice == parseFloat(RemoveCommas(Group(line, priceMatch, 1)))
      parts == ItemParts(line)
      st == PartsLoop(parts, 2, totalPrice, [qty |-> <<1, 1>>, unitPrice |-> Null])
  IN [description |-> parts[1],
      quantity |-> st.qty,
      unit_price |-> IF st.unitPrice = Null /\ st.qty[1] > 0
                     THEN RatDiv(totalPrice, st.qty) ELSE st.unitPrice,
      total_price |-> totalPrice,
      serial_no |-> serial]

RECURSIVE ItemsLoop_SkipBare(_, _, _, _)
\* ItemsLoop passing over a line that has a price and nothing before it
ItemsLoop_SkipBare(lines, i, itemsEnd, items) ==
  IF i > itemsEnd THEN items
  ELSE ItemsLoop_SkipBare(lines, i + 1, itemsEnd,
         IF match(lines[i], TrailingPricePattern).ok
            /\ Len(ItemParts(lines[i])) >= 2
         THEN Append(items, ItemOfLine(lines[i], Len(items) + 1))
         ELSE items)

RECURSIVE ItemsLoop(_, _, _, _)
\* the second loop of parseItems, from line i on
ItemsLoop(lines, i, itemsEnd, items) ==
  IF i > itemsEnd THEN items
  ELSE ItemsLoop(lines, i + 1, itemsEnd,
         IF match(lines[i], TrailingPricePattern).ok
         THEN Append(items, ItemOfLine(lines[i], Len(items) + 1))
         ELSE items)

RECURSIVE ItemsLoop_LineSerial(_, _, _, _)
\* parseItems numbering an item by the position of its line
ItemsLoop_LineSerial(lines, i, itemsEnd, items) ==
  IF i > itemsEnd THEN items
  ELSE ItemsLoop_LineSerial(lines, i + 1, itemsEnd,
         IF match(lines[i], TrailingPricePattern).ok
         THEN Append(items, ItemOfLine(lines[i], i))
         ELSE items)

parseItems_LineSerial(lines) ==
  ItemsLoop_LineSerial(lines, 1, ItemsEnd(lines), <<>>)

parseItems(lines) == ItemsLoop(lines, 1, ItemsEnd(lines), <<>>)

\* || that never substitutes the default
OrText_NoDefault(a, b) == a

\* a || b for a text or null a, and for a number or null a
OrText(a, b) == IF a = Null \/ a = <<>> THEN b ELSE a
OrNumber(a, b) == IF a = Null \/ a = Zero THEN b ELSE a

\* clock: Date.now(), the milliseconds since the epoch at the call
parseReceiptData(text, clock, offset) ==
  LET lines == NormalizedLines(text)
      storeInfo == extractStoreInfo(lines)
      receiptNumber == extractReceiptNumber(text)
      purchaseDate == parseDate(text, offset)
      totals == extractTotals(lines)
      paymentMethod == extractPaymentMethod(text)
      currency == OrText(inferCurrency(text), <<"U","S","D">>)
      items == parseItems(lines)
  IN [store_name |-> OrText(storeInfo.store_name, UnknownStore),
      store_address |-> storeInfo.address,
      store_website |-> storeInfo.website,
      purchase_date |-> OrText(purchaseDate, TodayISO(clock)),
      total_amount |-> OrNumber(totals.total_amount, Zero),
      tax_amount |-> OrNumber(totals.tax_amount, Zero),
      receipt_number |-> OrText(receiptNumber, RecPrefix \o ToDigits(clock, 1)),
      payment_method |-> paymentMethod,
      currency |-> currency,
      items |-> items,
      raw_text |-> text]

----------------------------------------------------------------------------
(* Inputs: OCR texts put together from blocks of receipt lines *)

\* the most blocks in one text
MaxBlocks == 2
\* the most clock advances in one run
MaxTicks == 1

Filler(n) == join([i \in 1..n |-> <<"x">>], <<"\n">>)

LBigMart == <<"B","I","G"," ","M","A","R","T">>
LUrlCom == <<"w","w","w",".","b","i","g","m","a","r","t",".","c","o","m">>
LUrlOrg == <<"d","e","a","l","s",".","o","r","g">>
LAddress == <<"1","2"," ","H","i","g","h"," ","S","t">>
LDate == <<"D","a","t","e",":"," ","1","5","/","0","1","/","2","0","2","4">>
LReceiptNo == <<"R","e","c","e","i","p","t"," ","N","o",":"," ","A","B","C","1","2","3">>
LPayment == <<"P","a","y","m","e","n","t",":"," ","V","I","S","A"," ","*","*","*","*","1","2","3","4">>
LItem1 == <<"I","T","E","M"," ","1"," "," "," "," "," "," "," "," ","1","0",".","0","0">>
LItem2 == <<"I","T","E","M"," ","2"," "," ","2","x"," "," "," "," ","5","0",".","0","0">>
LCoffee == <<"C","O","F","F","E","E">>
LFree == <<"S","A","M","P","L","E"," "," ","0",".","0","0">>
LBolts == <<"B","O","L","T","S"," "," ","3"," ","4",".","0","0">>
LSubtotal == <<"S","u","b","t","o","t","a","l"," "," "," "," "," ","6","0",".","0","0">>
LTax == <<"T","a","x"," ","(","1","0","%",")"," "," "," "," "," ","6",".","0","0">>
LTotal == <<"T","o","t","a","l"," "," "," "," "," "," "," "," ","6","6",".","0","0">>
LSubtotalAmount == <<"S","u","b","t","o","t","a","l"," ","A","m","o","u","n","t"," ","6","0",".","0","0">>
LRefund == <<"A","m","o","u","n","t",":"," ","-","5",".","0","0">>
LRupees == <<"INR_","4","5","0",".","0","0">>
LDollars == <<"P","a","i","d"," ","$","5",".","0","0">>
LEuros == <<"EUR_","3">>
LPounds == <<"GBP_">>
LYen == <<"JPY_">>
LPesos == <<"PHP_">>
LPlain == <<"4","5","0",".","0","0">>
LCityMarket == <<"C","i","t","y"," ","M","a","r","k","e","t">>
LWidget ==
  <<"W","I","D","G","E","T"," "," ","2","x"," "," ","2","5",".","0","0"," "," ","5","0",".","0","0">>
LIsoDate == <<"2","0","2","4","-","0","1","-","1","5">>
LFebruary31 == <<"3","1","/","0","2","/","2","0","2","4">>
LShortYear == <<"2","0","/","0","1","/","2","4">>
LMonthName == <<"5"," ","M","a","r"," ","9","9">>
LVatTwo == <<"V","A","T"," ","6","0",".","0","0"," ","4",".","0","0">>
LGstExempt == <<"G","S","T"," ","e","x","e","m","p","t">>
LTotalVat ==
  <<"T","o","t","a","l"," ","i","n","c","l","."," ","V","A","T"," ","6","6",".","0","0">>
LGrand == <<"G","R","A","N","D"," ","5","0",".","0","0">>
LCash == <<"C","a","s","h"," ","5",".","0","0">>
LVisaCard == <<"V","i","s","a"," ","c","a","r","d">>
LMasked == <<"*","*","*","*","*","9","8","7","6">>
LThanks == <<"T","h","a","n","k"," ","y","o","u","!">>

\* the three totals lines of the sample receipt
SampleTotals == join(<<LSubtotal, LTax, LTotal>>, <<"\n">>)

\* the sample receipt of the documentation
SampleReceipt ==
  join(<< <<"S","T","O","R","E"," ","N","A","M","E">>,
          <<"A","d","d","r","e","s","s"," ","L","i","n","e"," ","1">>,
          <<"A","d","d","r","e","s","s"," ","L","i","n","e"," ","2">>,
          <<"W","e","b","s","i","t","e">>, <<>>,
         LReceiptNo, LDate, <<>>, LItem1, LItem2, <<>>,
         SampleTotals, <<>>, LPayment, LThanks>>, <<"\n">>)

\* an address line, then a line with a store keyword
AddressLines == join(<<LAddress, LCityMarket>>, <<"\n">>)

HeaderBlocks ==
  <<LBigMart, LUrlCom, LUrlOrg, LAddress, AddressLines, Filler(10)>>
TotalsBlocks == <<SampleTotals, LSubtotalAmount, LTotal, LRefund, Filler(15)>>
\* a line without a price, then an item line
HeadedItem == join(<<LCoffee, LItem1>>, <<"\n">>)

ItemBlocks == <<HeadedItem, LItem2, LBolts, LFree, LWidget, LTotal>>
CurrencyBlocks == <<LRupees, LDollars, LEuros, LPounds, LYen, LPesos, LPlain>>
MiscBlocks == <<<<>>, <<" ", "\t", " ">>, SampleReceipt, LReceiptNo, LDate>>

DateBlocks == <<LIsoDate, LFebruary31, LShortYear, LMonthName>>

\* two tax lines with money, then a tax keyword line without
TaxRun == join(<<LTax, LVatTwo, LGstExempt>>, <<"\n">>)

TaxBlocks == <<TaxRun, LVatTwo, LTotalVat, LGrand, LTotal>>
PaymentBlocks == <<LCash, LVisaCard, LMasked, LPayment>>

Pools ==
  {HeaderBlocks, TotalsBlocks, ItemBlocks, CurrencyBlocks, MiscBlocks,
   DateBlocks, TaxBlocks, PaymentBlocks}

\* the texts of at most n blocks of the pool, one block to a line
RECURSIVE TextsOf(_, _)
TextsOf(pool, n) ==
  IF n = 0 THEN {<<>>}
  ELSE LET shorter == TextsOf(pool, n - 1)
       IN shorter \cup {pool[k] : k \in 1..Len(pool)}
                  \cup {t \o <<"\n">> \o pool[k] :
                          t \in shorter \ {<<>>}, k \in 1..Len(pool)}

Inputs == UNION {TextsOf(pool, MaxBlocks) : pool \in Pools}

\* minutes by which the local time of the runtime is ahead of UTC
TZOffsets == {-300, 0, 330}

----------------------------------------------------------------------------
(* The upload page (pages/upload.js).  page is the React state of the      *)
(* component; a value that is null or an object is a sequence of at most    *)
(* one element.  A message is the sequence of the pieces of its template.   *)
(* run is what surrounds the page: whether the Python OCR service is up,    *)
(* where the health check, handleOCR and handleSubmit stand, which file the *)
(* fields on the page were extracted from, and what was saved.              *)

\* the most runs of handleOCR
MaxAttempts == 2

\* the files the user may select
Files == {"receipt.jpg", "invoice.jpg"}

\* the texts an OCR engine may extract from each file
OcrTexts ==
  [f \in Files |->
     IF f = "receipt.jpg" THEN {<<>>, LItem1} ELSE {SampleTotals}]

\* useState(...) of UploadPage
PageInitial ==
  [file |-> <<>>,
   preview |-> <<>>,
   ocrText |-> <<>>,
   parsedData |-> <<>>,
   formData |-> [store_name |-> <<>>, purchase_date |-> <<>>,
                 total_amount |-> <<>>, receipt_number |-> <<>>],
   loading |-> FALSE,
   ocrLoading |-> FALSE,
   error |-> <<>>,
   usePythonOCR |-> FALSE,
   ocrServiceStatus |-> "unknown"]

\* the surroundings when the page mounts: the health check is under way.
\* ocrFile is the file the running handleOCR was called with, source the
\* file the text and fields on the page were extracted from, submitting
\* what the running handleSubmit was called with, saved the receipt stored.
RunInitial(serviceUp) ==
  [serviceUp |-> serviceUp,
   health |-> "pending",
   reading |-> <<>>,
   pc |-> "idle",
   usePythonOCR |-> FALSE,
   attempts |-> 0,
   parseCalls |-> 0,
   requestDown |-> FALSE,
   outcome |-> "none",
   ocrFile |-> <<>>,
   source |-> <<>>,
   submit |-> "idle",
   submitting |-> <<>>,
   saved |-> <<>>]

----------------------------------------------------------------------------
(* The state machine: the runtime holds a text, a clock and a timezone; a   *)
(* caller parses the text, any number of times; returned holds what the     *)
(* latest call returned (it is empty before the first call).                *)

Init ==
  /\ ocrText \in Inputs
  /\ tz \in TZOffsets
  /\ now = 0
  /\ ticks = 0
  /\ returned = <<>>
  /\ page = PageInitial
  /\ run = RunInitial(FALSE)

\* a call of parseReceiptData(ocrText)
Parse ==
  /\ returned' = <<parseReceiptData(ocrText, now, tz)>>
  /\ UNCHANGED <<ocrText, tz, now, ticks, page, run>>

\* time passes: a millisecond, or a day
Tick ==
  /\ ticks < MaxTicks
  /\ \E d \in {1, MsPerDay} : now' = now + d
  /\ ticks' = ticks + 1
  /\ UNCHANGED <<ocrText, tz, returned, page, run>>

Next == Parse \/ Tick

Spec == Init /\ [][Next]_vars

----------------------------------------------------------------------------
(* The state machine of the upload page *)

\* Number.prototype.toString for an amount of at most two decimals
NumberToString(r) ==
  LET cents == (r[1] * 100) \div r[2]
      frac == cents % 100
  IN ToDigits(cents \div 100, 1)
       \o (IF frac = 0 THEN <<>>
           ELSE IF frac % 10 = 0 THEN <<".", DigitSeq[(frac \div 10) + 1]>>
           ELSE <<".">> \o ToDigits(frac, 2))

\* the parsed object the route /api/ocr/upload builds from an answer of the
\* Python service that holds the text alone
RouteParsed ==
  [store_name |-> UnknownStore,
   store_address |-> Null,
   store_website |-> Null,
   purchase_date |-> Null,
   total_amount |-> Zero,
   tax_amount |-> Zero,
   receipt_number |-> Null,
   payment_method |-> Null,
   currency |-> <<"U","S","D">>,
   items |-> <<>>]

\* the message of the catch block of handleOCR for the error message msg
FailedMessage(msg) ==
  <<"Failed to extract text from image", ": ", msg, ". ",
    IF run.usePythonOCR THEN "Try using client-side OCR instead." ELSE "">>

\* the page is shown: router.push('/dashboard') has not been called
Mounted == run.submit # "left"

\* parseReceiptData(text) for the texts of OcrTexts, as the page calls it:
\* at the clock and in the timezone of PageInit, which no event changes
RECURSIVE ParseEach(_)
ParseEach(texts) ==
  IF texts = <<>> THEN <<>>
  ELSE <<parseReceiptData(Head(texts), 0, 0)>> \o ParseEach(Tail(texts))

ParsedTexts == ParseEach(<<<<>>, LItem1, SampleTotals>>)

\* the one of the results whose raw_text is the text
ResultFor(results, text) ==
  results[CHOOSE i \in 1..Len(results) : results[i].raw_text = text]

ParsedOnPage(text) == ResultFor(ParsedTexts, text)

PageInit ==
  /\ ocrText = <<>>
  /\ tz = 0
  /\ now = 0
  /\ ticks = 0
  /\ returned = <<>>
  /\ page = PageInitial
  /\ run \in {RunInitial(up) : up \in BOOLEAN}

\* the Python OCR service starts, or stops
ServiceStarts ==
  /\ ~run.serviceUp
  /\ run' = [run EXCEPT !.serviceUp = TRUE]
  /\ UNCHANGED <<ocrText, tz, now, ticks, returned, page>>

ServiceStops ==
  /\ run.serviceUp
  /\ run' = [run EXCEPT !.serviceUp = FALSE]
  /\ UNCHANGED <<ocrText, tz, now, ticks, returned, page>>

\* the health check of the mount effect ends: the service answered ok, or it
\* answered otherwise, did not answer within 2 s, or is not there
checkOCRService ==
  /\ Mounted
  /\ run.health = "pending"
  /\ \E ok \in (IF run.serviceUp THEN BOOLEAN ELSE {FALSE}) :
       page' = [page EXCEPT !.ocrServiceStatus =
                              IF ok THEN "available" ELSE "unavailable"]
  /\ run' = [run EXCEPT !.health = "done"]
  /\ UNCHANGED <<ocrText, tz, now, ticks, returned>>

\* the user selects a file
handleFileChange ==
  /\ Mounted
  /\ \E f \in Files :
       /\ page' = [page EXCEPT !.file = <<f>>, !.error = <<>>]
       /\ run' = [run EXCEPT !.reading = <<f>>]
  /\ UNCHANGED <<ocrText, tz, now, ticks, returned>>

\* reader.onloadend of handleFileChange
onloadend ==
  /\ Mounted
  /\ run.reading # <<>>
  /\ page' = [page EXCEPT !.preview = run.reading]
  /\ run' = [run EXCEPT !.reading = <<>>]
  /\ UNCHANGED <<ocrText, tz, now, ticks, returned>>

\* the checkbox 'Use Python OCR Service': shown once a file is selected,
\* disabled while the service status is 'unavailable'
setUsePythonOCR ==
  /\ Mounted
  /\ page.file # <<>>
  /\ page.ocrServiceStatus # "unavailable"
  /\ page' = [page EXCEPT !.usePythonOCR = ~page.usePythonOCR]
  /\ UNCHANGED <<ocrText, tz, now, ticks, returned, run>>

\* handleOCR up to its first await; the button is shown once a file is
\* selected and disabled while ocrLoading
handleOCR ==
  /\ Mounted
  /\ page.file # <<>>
  /\ ~page.ocrLoading
  /\ run.pc = "idle"
  /\ run.attempts < MaxAttempts
  /\ page' = [page EXCEPT !.ocrLoading = TRUE, !.error = <<>>]
  /\ run' = [run EXCEPT
               !.pc = IF page.usePythonOCR
                         /\ page.ocrServiceStatus = "available"
                      THEN "python" ELSE "tesseract",
               !.usePythonOCR = page.usePythonOCR,
               !.attempts = @ + 1,
               !.requestDown = ~run.serviceUp,
               !.outcome = "none",
               !.ocrFile = page.file]
  /\ UNCHANGED <<ocrText, tz, now, ticks, returned>>

\* handleOCR after fetch('/api/ocr/upload') answered ok
handleOCR_PythonData ==
  /\ Mounted
  /\ run.pc = "python"
  /\ run.serviceUp
  /\ \E text \in OcrTexts[run.ocrFile[1]] :
       page' = [page EXCEPT
                  !.ocrText = text,
                  !.parsedData = <<RouteParsed>>,
                  !.formData =
                    [store_name |-> OrText(RouteParsed.store_name, <<>>),
                     purchase_date |-> OrText(RouteParsed.purchase_date, <<>>),
                     total_amount |->
                       OrText(NumberToString(RouteParsed.total_amount), <<>>),
                     receipt_number |->
                       OrText(RouteParsed.receipt_number, <<>>)],
                  !.ocrLoading = FALSE]
  /\ run' = [run EXCEPT !.pc = "idle", !.outcome = "text",
                        !.source = run.ocrFile]
  /\ UNCHANGED <<ocrText, tz, now, ticks, returned>>

\* handleOCR after fetch('/api/ocr/upload') answered not ok: 503 of the
\* route when the service is not there, or the error of the service
handleOCR_PythonError ==
  /\ Mounted
  /\ run.pc = "python"
  /\ page' = [page EXCEPT
                !.error =
                  FailedMessage(
                    IF run.serviceUp THEN "OCR service error"
                    ELSE "Cannot connect to OCR service at http://localhost:8000"),
                !.ocrLoading = FALSE]
  /\ run' = [run EXCEPT !.pc = "idle", !.outcome = "error"]
  /\ UNCHANGED <<ocrText, tz, now, ticks, returned>>

\* handleOCR_Raised invoking the parser on an empty text all the same
handleOCR_RaisedThenParsed ==
  /\ Mounted
  /\ run.pc = "tesseract"
  /\ page' = [page EXCEPT
                !.error = FailedMessage("Failed to extract text from image"),
                !.parsedData = <<parseReceiptData(<<>>, now, tz)>>,
                !.ocrLoading = FALSE]
  /\ run' = [run EXCEPT !.pc = "idle", !.outcome = "raised",
                        !.parseCalls = @ + 1]
  /\ UNCHANGED <<ocrText, tz, now, ticks, returned>>

\* the state of the page after the text was extracted and parsed
PageWithParsed(text, parsed) ==
  [page EXCEPT
     !.ocrText = text,
     !.parsedData = <<parsed>>,
     !.formData = [store_name |-> parsed.store_name,
                   purchase_date |-> parsed.purchase_date,
                   total_amount |-> NumberToString(parsed.total_amount),
                   receipt_number |-> parsed.receipt_number],
     !.ocrLoading = FALSE]

\* handleOCR after extractTextFromImage(file) gave the text
handleOCR_Extracted ==
  /\ Mounted
  /\ run.pc = "tesseract"
  /\ \E text \in OcrTexts[run.ocrFile[1]] :
       /\ ocrText' = text
       /\ returned' = <<ParsedOnPage(text)>>
       /\ page' = PageWithParsed(text, returned'[1])
  /\ run' = [run EXCEPT !.pc = "idle", !.outcome = "text",
                        !.parseCalls = @ + 1, !.source = run.ocrFile]
  /\ UNCHANGED <<tz, now, ticks>>

\* handleOCR after extractTextFromImage(file) raised
handleOCR_Raised ==
  /\ Mounted
  /\ run.pc = "tesseract"
  /\ page' = [page EXCEPT
                !.error = FailedMessage("Failed to extract text from image"),
                !.ocrLoading = FALSE]
  /\ run' = [run EXCEPT !.pc = "idle", !.outcome = "raised"]
  /\ UNCHANGED <<ocrText, tz, now, ticks, returned>>

\* the row handleSubmit inserts into 'receipts' for the file and the form
\* fields it was called with
ReceiptRow(file, formData) ==
  [file |-> file,
   receipt_number |-> formData.receipt_number,
   store_name |-> formData.store_name,
   purchase_date |-> formData.purchase_date,
   total_amount |-> OrNumber(parseFloat(formData.total_amount), Zero)]

\* handleSubmit up to its first await, for a signed-in user; the button is
\* disabled while loading or without a file, and the form is not submitted
\* while a required field is empty
handleSubmit ==
  /\ Mounted
  /\ page.file # <<>>
  /\ ~page.loading
  /\ page.formData.store_name # <<>>
  /\ page.formData.purchase_date # <<>>
  /\ page.formData.total_amount # <<>>
  /\ page' = [page EXCEPT !.loading = TRUE, !.error = <<>>]
  /\ run' = [run EXCEPT
               !.submit = "saving",
               !.submitting = <<[row |-> ReceiptRow(page.file[1], page.formData),
                                 source |-> run.source]>>]
  /\ UNCHANGED <<ocrText, tz, now, ticks, returned>>

\* handleSubmit after the upload and the insert succeeded: the receipt is
\* stored and the router leaves for the dashboard
handleSubmit_Saved ==
  /\ run.submit = "saving"
  /\ page' = [page EXCEPT !.loading = FALSE]
  /\ run' = [run EXCEPT !.submit = "left", !.submitting = <<>>,
                        !.saved = run.submitting]
  /\ UNCHANGED <<ocrText, tz, now, ticks, returned>>

\* handleSubmit after the upload or the insert failed (catch, finally)
handleSubmit_Failed ==
  /\ run.submit = "saving"
  /\ page' = [page EXCEPT
                !.error = <<"Failed to upload receipt. Please try again.">>,
                !.loading = FALSE]
  /\ run' = [run EXCEPT !.submit = "idle", !.submitting = <<>>]
  /\ UNCHANGED <<ocrText, tz, now, ticks, returned>>

PageNext ==
  \/ ServiceStarts
  \/ ServiceStops
  \/ checkOCRService
  \/ handleFileChange
  \/ onloadend
  \/ setUsePythonOCR
  \/ handleOCR
  \/ handleOCR_PythonData
  \/ handleOCR_PythonError
  \/ handleOCR_Extracted
  \/ handleOCR_Raised
  \/ handleSubmit
  \/ handleSubmit_Saved
  \/ handleSubmit_Failed

PageSpec == PageInit /\ [][PageNext]_vars

----------------------------------------------------------------------------
(* Properties *)

\* the normalized lines of the text being parsed
Lines == NormalizedLines(ocrText)

\* the last n of the lines ls
LastLines(ls, n) == SubSeq(ls, IF Len(ls) > n THEN Len(ls) - n + 1 ELSE 1, Len(ls))

\* the character c occurs in the text
Occurs(c, text) == \E i \in 1..Len(text) : text[i] = c

USD == <<"U","S","D">>

\* C1: for every input text, the empty and the whitespace-only ones
\* included, parseReceiptData returns, and every field of what it returns is
\* defined: store_name, purchase_date and receipt_number are non-empty
\* texts, total_amount and tax_amount are numbers, currency is a code, items
\* is a sequence; a text without lines gives the defaults 'Unknown Store',
\* 0, 0, 'USD', no items, and null address, website and payment method.
C1_FullyPopulated ==
  \A k \in 1..Len(returned) :
    LET r == returned[k]
    IN /\ r.store_name # Null /\ Len(r.store_name) > 0
       /\ r.purchase_date # Null /\ Len(r.purchase_date) > 0
       /\ r.receipt_number # Null /\ Len(r.receipt_number) > 0
       /\ r.total_amount # Null /\ r.total_amount[2] > 0
       /\ r.tax_amount # Null /\ r.tax_amount[2] > 0
       /\ r.currency \in {symbols[j][2] : j \in 1..Len(symbols)}
       /\ DOMAIN r.items = 1..Len(r.items)
       /\ r.raw_text = ocrText
       /\ Lines = <<>> =>
            /\ r.store_name = UnknownStore
            /\ r.total_amount = Zero /\ r.tax_amount = Zero
            /\ r.currency = USD
            /\ r.items = <<>>
            /\ r.store_address = Null /\ r.store_website = Null
            /\ r.payment_method = Null

\* a whitespace-only text has been parsed and gave the defaults
C1_Witness ==
  /\ Len(returned) > 0
  /\ ocrText # <<>> /\ Lines = <<>>
  /\ returned[1].store_name = UnknownStore
  /\ returned[1].items = <<>>
  /\ returned[1].total_amount = Zero

\* C2: a call of parseReceiptData on a text parsed before, at whatever
\* moment, returns the same value in every field as the call before it.
C2_SameOutputTwice ==
  [][(Len(returned) = 1 /\ Len(returned') = 1) => returned' = returned]_vars

Pad2(t) == IF Len(t) = 1 THEN <<"0">> \o t ELSE t

\* C3: when the text holds a numeric date day/month/4-digit-year, the
\* purchase_date is that year, that month and that day in ISO form.
C3_DayMonthYear ==
  \A k \in 1..Len(returned) :
    LET m == match(ocrText, DatePatterns[1])
    IN (m.ok /\ Len(Group(ocrText, m, 5)) = 4) =>
         returned[k].purchase_date =
           Group(ocrText, m, 5) \o <<"-">> \o Pad2(Group(ocrText, m, 3))
             \o <<"-">> \o Pad2(Group(ocrText, m, 1))

\* /^\d+x$/i: a quantity token
QtyToken == Pattern(<<Cat(<<StartAnchor, Plus(D), Ci("x"), EndAnchor>>)>>)

\* C4: a text of one line made of a description, a quantity token Nx and a
\* trailing price P in columns two or more spaces apart gives exactly one
\* item, with quantity N, total_price P and unit_price P / N.
C4_QuantityColumn ==
  \A k \in 1..Len(returned) :
    (/\ Len(Lines) = 1
     /\ Len(split(Lines[1], ColumnGap)) = 3
     /\ test(QtyToken, split(Lines[1], ColumnGap)[2])
     /\ test(MoneyOnlyPattern, split(Lines[1], ColumnGap)[3])) =>
      LET cols == split(Lines[1], ColumnGap)
          N == <<parseInt(cols[2]), 1>>
          P == parseFloat(RemoveCommas(cols[3]))
          items == returned[k].items
      IN /\ Len(items) = 1
         /\ items[1].quantity = N
         /\ items[1].total_price = P
         /\ N[1] > 0 => items[1].unit_price = RatDiv(P, N)

\* C5: no line among the last 15 whose lower-case text contains both 'sub'
\* and 'total' adds a candidate for total_amount; and the lines
\* 'Subtotal 60.00', 'Tax (10%) 6.00', 'Total 66.00' give tax_amount 6.00
\* and total_amount 66.00.
C5_SubtotalNeverCandidate ==
  \A k \in 1..Len(returned) :
    /\ \A i \in 1..Len(LastLines(Lines, 15)) :
         LET line == LastLines(Lines, 15)[i]
         IN (includes(toLowerCase(line), <<"s","u","b">>)
             /\ includes(toLowerCase(line), <<"t","o","t","a","l">>)) =>
              TotalsStep([taxAmount |-> Null, totalsCandidates |-> <<>>],
                         line).totalsCandidates = <<>>
    /\ Lines = <<LSubtotal, LTax, LTotal>> =>
         /\ returned[k].tax_amount = <<6, 1>>
         /\ returned[k].total_amount = <<66, 1>>

\* the line is a total line: 'total' without 'sub', or 'grand' or 'amount'
TotalLike(line) ==
  LET l == toLowerCase(line)
  IN \/ includes(l, <<"t","o","t","a","l">>) /\ ~includes(l, <<"s","u","b">>)
     \/ includes(l, <<"g","r","a","n","d">>)
     \/ includes(l, <<"a","m","o","u","n","t">>)

\* the line is a tax line: 'tax', 'vat' or 'gst'
TaxLike(line) ==
  LET l == toLowerCase(line)
  IN \/ includes(l, <<"t","a","x">>)
     \/ includes(l, <<"v","a","t">>)
     \/ includes(l, <<"g","s","t">>)

HasMoney(line) == test(MoneyPattern, line)

\* C6: total_amount and tax_amount are numbers, never below 0, and each is
\* 0 when none of the last 15 lines is a total line (a tax line) with a
\* money token.
C6_TotalsNotNegative ==
  \A k \in 1..Len(returned) :
    LET r == returned[k]
        bottom == LastLines(Lines, 15)
    IN /\ r.total_amount # Null /\ r.total_amount[1] >= 0
       /\ r.tax_amount # Null /\ r.tax_amount[1] >= 0
       /\ (\A i \in 1..Len(bottom) : ~(TotalLike(bottom[i]) /\ HasMoney(bottom[i])))
            => r.total_amount = Zero
       /\ (\A i \in 1..Len(bottom) : ~(TaxLike(bottom[i]) /\ HasMoney(bottom[i])))
            => r.tax_amount = Zero

\* a total line with money stands above the last 15 lines and the parse
\* gave total_amount 0
C6_Witness ==
  /\ Len(returned) > 0
  /\ Len(Lines) > 15
  /\ \E i \in 1..(Len(Lines) - 15) : TotalLike(Lines[i]) /\ HasMoney(Lines[i])
  /\ returned[1].total_amount = Zero

\* C7: the serial_no of the items returned are 1, 2, ..., N in order.
C7_SerialDense ==
  \A k \in 1..Len(returned) :
    \A j \in 1..Len(returned[k].items) : returned[k].items[j].serial_no = j

\* two items were emitted around a line without a price
C7_Witness ==
  /\ Len(returned) > 0
  /\ Len(Lines) = 3
  /\ ~test(TrailingPricePattern, Lines[2])
  /\ Len(returned[1].items) = 2
  /\ returned[1].items[2].serial_no = 2

\* the lines of the items region that end with a price: the lines the
\* items come from, in order
PricedLines ==
  SelectSeq(SubSeq(Lines, 1, ItemsEnd(Lines)),
            LAMBDA l : test(TrailingPricePattern, l))

\* every money token of the line has the value v
NoOtherMoney(line, v) ==
  \A i \in 1..Len(parsedAmounts(line)) : parsedAmounts(line)[i] = v

\* C8: total_price of an item is never null; and an item with quantity
\* Q > 0 whose line has no money token other than its total has
\* unit_price = total_price / Q.
C8_UnitPriceDerived ==
  \A k \in 1..Len(returned) :
    \A j \in 1..Len(returned[k].items) :
      LET it == returned[k].items[j]
      IN /\ it.total_price # Null
         /\ (/\ j <= Len(PricedLines)
             /\ NoOtherMoney(PricedLines[j], it.total_price)
             /\ it.quantity[1] > 0) =>
              it.unit_price = RatDiv(it.total_price, it.quantity)

\* an item of quantity 3 and total 4.00 has the unit price 4/3
C8_Witness ==
  /\ Len(returned) > 0
  /\ \E j \in 1..Len(returned[1].items) :
       /\ j <= Len(PricedLines)
       /\ NoOtherMoney(PricedLines[j], returned[1].items[j].total_price)
       /\ returned[1].items[j].quantity = <<3, 1>>
       /\ returned[1].items[j].unit_price = <<4, 3>>

\* the positions, among the first 10 lines, of the lines that look like a URL
UrlLines == {i \in 1..Min(10, Len(Lines)) : test(UrlPattern, Lines[i])}

\* C9: store_website is the first of the first 10 lines that matches the
\* URL pattern (null when none does).
C9_FirstUrlLine ==
  \A k \in 1..Len(returned) :
    returned[k].store_website =
      IF UrlLines = {} THEN Null ELSE Lines[Least(UrlLines)]

\* the positions in symbols of the currency symbols that occur in the text
SymbolsPresent == {j \in 1..Len(symbols) : Occurs(symbols[j][1], ocrText)}

\* C10: currency is the code of the first of $, EUR, GBP, INR, JPY, PHP
\* (in this order) that occurs anywhere in the text, and 'USD' when none
\* occurs.
C10_CurrencyPriority ==
  \A k \in 1..Len(returned) :
    returned[k].currency =
      IF SymbolsPresent = {} THEN USD ELSE symbols[Least(SymbolsPresent)][2]

\* the rupee sign comes before the dollar sign, and the currency is USD
C10_Witness ==
  /\ Len(returned) > 0
  /\ \E i, j \in 1..Len(ocrText) :
       i < j /\ ocrText[i] = "INR_" /\ ocrText[j] = "$"
  /\ returned[1].currency = USD

\* the positions, among the first 10 lines, of the lines that are no URL and
\* have more than half of their characters in A-Z or hold a store keyword
NameLines ==
  LET ls == Lines
  IN {i \in 1..Min(10, Len(ls)) :
        /\ ~test(UrlPattern, ls[i])
        /\ \/ 2 * UpperCount(ls[i]) > Len(ls[i])
           \/ hasKeyword(ls[i])}

\* C13: store_name is the first of the first 10 lines that is no URL line
\* and has an upper-case ratio above 0.5 or a store keyword; a later such
\* line does not replace it, and lines after the tenth do not count (the
\* name is then the default 'Unknown Store').
C13_FirstNameLine ==
  \A k \in 1..Len(returned) :
    LET names == NameLines
    IN returned[k].store_name =
         IF names = {} THEN UnknownStore ELSE Lines[Least(names)]

\* two different lines qualify and the first one is the store name
C13_Witness ==
  /\ Len(returned) > 0
  /\ LET names == NameLines
         ls == Lines
     IN \E i, j \in names :
          i < j /\ ls[i] # ls[j] /\ i = Least(names)
                /\ returned[1].store_name = ls[i]

\* the positions of the lines, within the first 10, that follow the store
\* name line and are no URL
AddressIdx ==
  LET names == NameLines
      ls == Lines
  IN IF names = {} THEN {}
     ELSE {i \in (Least(names) + 1)..Min(10, Len(ls)) :
             ~test(UrlPattern, ls[i])}

RECURSIVE FirstLinesOf(_, _, _)
\* the lines of ls at the n least positions of S, in order
FirstLinesOf(ls, S, n) ==
  IF S = {} \/ n = 0 THEN <<>>
  ELSE <<ls[Least(S)]>> \o FirstLinesOf(ls, S \ {Least(S)}, n - 1)

\* C14: store_address is the first (at most 3) lines that follow the store
\* name line within the first 10 lines and are no URL, joined by ', ' in
\* order; it is null when there is none.
C14_AddressAfterName ==
  \A k \in 1..Len(returned) :
    LET idx == AddressIdx
        ls == Lines
    IN returned[k].store_address =
         IF idx = {} THEN Null
         ELSE join(FirstLinesOf(ls, idx, 3), <<",", " ">>)

\* 'BIG MART' and two address lines: the address is the two lines joined
C14_Witness ==
  /\ Len(returned) > 0
  /\ Lines = <<LBigMart, LAddress, LCityMarket>>
  /\ returned[1].store_name = LBigMart
  /\ returned[1].store_address = LAddress \o <<",", " ">> \o LCityMarket

\* /^(\d{4})[/\-](\d{1,2})[/\-](\d{1,2})$/: a year-first date and nothing else
YearFirstOnly ==
  Pattern(<<Cat(<<StartAnchor, Rep(D, 4, 4)>>), DateSep, Rep(D, 1, 2),
            DateSep, Cat(<<Rep(D, 1, 2), EndAnchor>>)>>)

\* y-m-d is a date of the calendar
RealDate(y, m, d) ==
  /\ m \in 1..12 /\ d >= 1
  /\ CivilFromDays(DaysFromCivil(y, m, d)) = <<y, m, d>>

\* C15: when the text is one date written year-first (YYYY-MM-DD or
\* YYYY/MM/DD), purchase_date is that year, that month and that day.
C15_YearFirst ==
  \A k \in 1..Len(returned) :
    LET m == match(ocrText, YearFirstOnly)
    IN (/\ m.ok
        /\ RealDate(parseInt(Group(ocrText, m, 1)),
                    parseInt(Group(ocrText, m, 3)),
                    parseInt(Group(ocrText, m, 5)))) =>
         returned[k].purchase_date =
           Group(ocrText, m, 1) \o <<"-">> \o Pad2(Group(ocrText, m, 3))
             \o <<"-">> \o Pad2(Group(ocrText, m, 5))

\* the date patterns, by position, that match the text
MatchingPatterns ==
  {p \in 1..Len(DatePatterns) : match(ocrText, DatePatterns[p]).ok}

\* the year a year token stands for: 2000 more for a token of 2 digits
YearOfToken(t) == IF Len(t) = 2 THEN 2000 + parseInt(t) ELSE parseInt(t)

\* C16: when the numeric day/month pattern is the only date pattern that
\* matches and its tokens form no date of the calendar, read as day/month or
\* as month/day, parseDate returns null, not a date rolled over from them.
C16_NoRollover ==
  \A k \in 1..Len(returned) :
    LET m == match(ocrText, DatePatterns[1])
        a == parseInt(Group(ocrText, m, 1))
        b == parseInt(Group(ocrText, m, 3))
        y == YearOfToken(Group(ocrText, m, 5))
    IN (/\ MatchingPatterns = {1}
        /\ ~RealDate(y, a, b) /\ ~RealDate(y, b, a)) =>
         /\ parseDate(ocrText, tz) = Null
         /\ returned[k].purchase_date #
              LocalDateToISO(DateOfMatch(ocrText, m), tz)

\* C17: when the year token of the matched date (the match of the first
\* pattern that matches) has 2 digits, the year of purchase_date is 2000
\* plus that token.
C17_TwoDigitYear ==
  \A k \in 1..Len(returned) :
    MatchingPatterns # {} =>
      LET m == match(ocrText, DatePatterns[Least(MatchingPatterns)])
          yy == Group(ocrText, m, 5)
      IN Len(yy) = 2 =>
           SubSeq(returned[k].purchase_date, 1, 4) = <<"2", "0">> \o yy

\* C18: an item line of two columns, a description and the trailing price,
\* gives an item with quantity 1 and unit_price equal to total_price.
C18_DefaultQuantity ==
  \A k \in 1..Len(returned) :
    LET priced == PricedLines
    IN \A j \in 1..Len(returned[k].items) :
      LET cols == split(priced[j], ColumnGap)
          it == returned[k].items[j]
      IN (Len(cols) = 2 /\ test(MoneyOnlyPattern, cols[2])) =>
           /\ it.quantity = <<1, 1>>
           /\ it.unit_price = it.total_price

\* the columns, after the description and before the trailing total, that
\* are money tokens of a value other than the total
UnitPriceColumns(cols, total) ==
  {c \in 2..(Len(cols) - 1) :
     /\ test(MoneyOnlyPattern, cols[c])
     /\ parseFloat(RemoveCommas(cols[c])) # total}

\* C19: when an item line has, between the description and the trailing
\* total, a money token of another value, unit_price is the first such
\* token.
C19_UnitPriceToken ==
  \A k \in 1..Len(returned) :
    LET priced == PricedLines
    IN \A j \in 1..Len(returned[k].items) :
      LET cols == split(priced[j], ColumnGap)
          it == returned[k].items[j]
          cs == UnitPriceColumns(cols, it.total_price)
      IN cs # {} =>
           it.unit_price = parseFloat(RemoveCommas(cols[Least(cs)]))

\* the positions of the lines whose lower-case text holds a totals keyword
KeywordLines ==
  LET ls == Lines
  IN {i \in 1..Len(ls) :
        LET lower == toLowerCase(ls[i])
        IN \E w \in 1..Len(totalsKeywords) :
             includes(lower, totalsKeywords[w])}

\* the lines before the first keyword line (all of them when there is none)
\* that end with a price
RegionPricedLines ==
  LET ls == Lines
      keys == KeywordLines
  IN SelectSeq(SubSeq(ls, 1, IF keys = {} THEN Len(ls) ELSE Least(keys) - 1),
               LAMBDA l : test(TrailingPricePattern, l))

\* C20: the items come, one each and in order, from the lines with a
\* trailing price that stand before the first line holding 'subtotal',
\* 'total', 'grand', 'tax', 'vat' or 'gst'; from every such line of the text
\* when no line holds one.
C20_ItemsRegion ==
  \A k \in 1..Len(returned) :
    LET items == returned[k].items
        region == RegionPricedLines
    IN /\ Len(items) = Len(region)
       /\ \A j \in 1..Len(items) :
            /\ items[j].description = ItemParts(region[j])[1]
            /\ items[j].total_price = Last(parsedAmounts(region[j]))

\* a line with a price stands after a keyword line and gave no item
C20_Witness ==
  /\ Len(returned) > 0
  /\ LET ls == Lines
     IN \E i \in KeywordLines :
          \E j \in (i + 1)..Len(ls) : test(TrailingPricePattern, ls[j])
  /\ Len(returned[1].items) = Len(RegionPricedLines)

\* C11: when the client-side OCR step of handleOCR raises, the parser is not
\* invoked for that attempt, the error shown begins with 'Failed to extract
\* text from image', and ocrLoading is cleared.
C11_NoParseAfterOcrFailure ==
  [][(run.pc = "tesseract" /\ run'.outcome = "raised") =>
       /\ run'.parseCalls = run.parseCalls
       /\ page'.parsedData = page.parsedData
       /\ page'.error # <<>>
       /\ page'.error[1] = "Failed to extract text from image"
       /\ ~page'.ocrLoading]_vars

\* the client-side OCR raised in the second attempt, after a first attempt
\* that was parsed
C11_Witness ==
  /\ run.outcome = "raised"
  /\ run.attempts = 2
  /\ run.parseCalls = 1
  /\ page.error # <<>>
  /\ ~page.ocrLoading

\* C12: when the Python OCR service is not running at the moment the user
\* requests OCR, handleOCR extracts the text with client-side Tesseract.js.
C12_FallbackWhenServiceDown ==
  [][(run.pc = "idle" /\ run'.pc # "idle" /\ ~run.serviceUp) =>
       run'.pc = "tesseract"]_vars

\* the line ends with a money token: a digit or comma, a dot, two digits
EndsWithMoney(line) ==
  LET n == Len(line)
  IN /\ n >= 4
     /\ line[n] \in Digit /\ line[n - 1] \in Digit
     /\ line[n - 2] = "."
     /\ line[n - 3] \in Digit \cup {","}

\* the number of lines before the first keyword line (of all lines when
\* there is none)
RegionEnd ==
  LET keys == KeywordLines
  IN IF keys = {} THEN Len(Lines) ELSE Least(keys) - 1

\* C21: the number of items returned is the number of lines of the items
\* region that end with a money token: each such line gives exactly one
\* item, and a line without a trailing price gives none.
C21_OneItemPerPricedLine ==
  \A k \in 1..Len(returned) :
    LET ls == Lines
        priced == {i \in 1..RegionEnd : EndsWithMoney(ls[i])}
    IN Len(returned[k].items) = Cardinality(priced)

\* the region holds a line without a trailing price and a line that is
\* nothing but a price, and the parse gave one item for each priced line
C21_Witness ==
  /\ Len(returned) > 0
  /\ LET ls == Lines
         end == RegionEnd
     IN /\ \E i \in 1..end : ~EndsWithMoney(ls[i])
        /\ \E i \in 1..end : EndsWithMoney(ls[i]) /\ Len(ItemParts(ls[i])) = 1
        /\ Len(returned[1].items) =
             Cardinality({i \in 1..end : EndsWithMoney(ls[i])})
        /\ Len(returned[1].items) > 0

\* the line is a money token and nothing else
BarePrice(line) ==
  /\ EndsWithMoney(line)
  /\ \A i \in 1..(Len(line) - 3) : line[i] \in Digit \cup {","}

\* C22: a line of the items region that is only a price, such as '50.00',
\* gives an item whose description is the empty text.
C22_EmptyDescription ==
  \A k \in 1..Len(returned) :
    LET items == returned[k].items
        region == RegionPricedLines
    IN \A j \in 1..Min(Len(items), Len(region)) :
         BarePrice(region[j]) => items[j].description = <<>>

\* the greatest element of a non-empty set of integers
Greatest(S) == CHOOSE i \in S : \A j \in S : j <= i

\* the positions, among the lines ls, of the tax lines with a money token
TaxLinesWithMoney(ls) ==
  {i \in 1..Len(ls) : TaxLike(ls[i]) /\ HasMoney(ls[i])}

\* C23: tax_amount is the last money token of the last line, among the last
\* 15 lines, that holds 'tax', 'vat' or 'gst' and a money token: a later tax
\* line overwrites an earlier one, a tax line without a money token changes
\* nothing, and the earlier money tokens of the line are ignored.
C23_LastTaxLine ==
  \A k \in 1..Len(returned) :
    LET bottom == LastLines(Lines, 15)
        taxed == TaxLinesWithMoney(bottom)
    IN returned[k].tax_amount =
         IF taxed = {} THEN Zero
         ELSE Last(parsedAmounts(bottom[Greatest(taxed)]))

\* two tax lines with different amounts, the later with two money tokens,
\* then a tax line without money: the parse gave the last token of the
\* second line
C23_Witness ==
  /\ Len(returned) > 0
  /\ LET bottom == LastLines(Lines, 15)
         taxed == TaxLinesWithMoney(bottom)
     IN /\ Cardinality(taxed) >= 2
        /\ \E i \in 1..Len(bottom) :
             /\ i > Greatest(taxed)
             /\ TaxLike(bottom[i]) /\ ~HasMoney(bottom[i])
        /\ LET amts == parsedAmounts(bottom[Greatest(taxed)])
           IN /\ Len(amts) >= 2 /\ amts[1] # Last(amts)
              /\ returned[1].tax_amount = Last(amts)
              /\ \E i \in taxed :
                   Last(parsedAmounts(bottom[i])) # Last(amts)

\* the last money tokens of the total lines with money among the lines ls,
\* in the order of the lines
TotalLikeAmounts(ls) ==
  LET hits == SelectSeq(ls, LAMBDA l : TotalLike(l) /\ HasMoney(l))
  IN [j \in 1..Len(hits) |-> Last(parsedAmounts(hits[j]))]

\* C24: when several of the last 15 lines are total lines with a money token
\* ('total' without 'sub', or 'grand', or 'amount'), total_amount is the
\* greatest of their last money tokens, whatever the order of the lines.
C24_MaximumOfTotals ==
  \A k \in 1..Len(returned) :
    LET amounts == TotalLikeAmounts(LastLines(Lines, 15))
    IN Len(amounts) >= 2 => returned[k].total_amount = MathMax(amounts)

\* C25: every line among the last 15 that holds 'total' without 'sub' and a
\* money token adds its last money token to the candidates for total_amount
\* (so that total_amount is not below it), also when the line holds 'tax',
\* 'vat' or 'gst', as 'Total incl. VAT 66.00' does.
C25_TotalLineContributes ==
  \A k \in 1..Len(returned) :
    LET bottom == LastLines(Lines, 15)
    IN \A i \in 1..Len(bottom) :
         LET lower == toLowerCase(bottom[i])
         IN (/\ includes(lower, <<"t","o","t","a","l">>)
             /\ ~includes(lower, <<"s","u","b">>)
             /\ HasMoney(bottom[i])) =>
              /\ TotalsStep([taxAmount |-> Null, totalsCandidates |-> <<>>],
                            bottom[i]).totalsCandidates
                   = <<Last(parsedAmounts(bottom[i]))>>
              /\ ~RatLess(returned[k].total_amount,
                          Last(parsedAmounts(bottom[i])))

\* keyword lines to put above the last 15 lines
Probes == {LTotal, LTax, LGrand, LVatTwo}

\* C26: only the last 15 lines bear on total_amount and tax_amount: the
\* values returned are those of the last 15 lines alone, and putting a tax
\* or total line in the place of a line above the last 15, or on top of 15
\* or more lines, changes neither value.
C26_OnlyLastFifteen ==
  \A k \in 1..Len(returned) :
    LET ls == Lines
        n == Len(ls)
        alone == extractTotals(LastLines(ls, 15))
    IN /\ returned[k].total_amount = OrNumber(alone.total_amount, Zero)
       /\ returned[k].tax_amount = OrNumber(alone.tax_amount, Zero)
       /\ \A p \in Probes :
            /\ \A i \in 1..(n - 15) :
                 extractTotals([ls EXCEPT ![i] = p]) = alone
            /\ n >= 15 => extractTotals(<<p>> \o ls) = alone

\* a tax line and a total line, both with money, stand above the last 15
\* lines, and the parse gave 0 for both values
C26_Witness ==
  /\ Len(returned) > 0
  /\ LET ls == Lines
     IN /\ Len(ls) > 15
        /\ \E i \in 1..(Len(ls) - 15) : TaxLike(ls[i]) /\ HasMoney(ls[i])
        /\ \E i \in 1..(Len(ls) - 15) :
             TotalLike(ls[i]) /\ ~TaxLike(ls[i]) /\ HasMoney(ls[i])
  /\ returned[1].total_amount = Zero
  /\ returned[1].tax_amount = Zero

\* the number of asterisks that follow one another from position i on
RECURSIVE Asterisks(_, _)
Asterisks(text, i) ==
  IF i > Len(text) \/ text[i] # "*" THEN 0 ELSE 1 + Asterisks(text, i + 1)

\* the positions where a masked-card token starts: 4 or more asterisks,
\* then 4 digits
MaskedAt(text) ==
  {i \in 1..Len(text) :
     LET r == Asterisks(text, i)
     IN /\ r >= 4
        /\ i + r + 3 <= Len(text)
        /\ \A d \in 0..3 : text[i + r + d] \in Digit}

\* the methods of the list that occur in the lower-case text
MethodsPresent(text) ==
  {m \in 1..Len(methods) : includes(toLowerCase(text), methods[m])}

\* C27: payment_method is null when no method of the list visa, mastercard,
\* amex, rupay, upi, cash, debit, credit, card occurs in the lower-case
\* text, also when a masked-card token occurs; otherwise it is the first
\* method of the list that occurs, in upper case, followed by a space and
\* the first masked-card token of the text when there is one.
C27_PaymentMethod ==
  \A k \in 1..Len(returned) :
    LET present == MethodsPresent(ocrText)
        cards == MaskedAt(ocrText)
        name == toUpperCase(methods[Least(present)])
        i == Least(cards)
    IN returned[k].payment_method =
         IF present = {} THEN Null
         ELSE IF cards = {} THEN name
         ELSE name \o <<" ">>
                \o SubSeq(ocrText, i, i + Asterisks(ocrText, i) + 3)

\* 'cash' stands in the text before 'visa', a masked-card token occurs, and
\* the parse gave VISA with the token
C27_Witness ==
  /\ Len(returned) > 0
  /\ MethodsPresent(ocrText) = {1, 6}
  /\ MaskedAt(ocrText) # {}
  /\ LET lower == toLowerCase(ocrText)
     IN \E i \in 1..(Len(lower) - 3) :
          /\ SubSeq(lower, i, i + 3) = methods[6]
          /\ ~includes(SubSeq(lower, 1, i + 2), methods[1])
  /\ returned[1].payment_method =
       <<"V","I","S","A"," ","*","*","*","*","1","2","3","4">>

\* C28: the purchase_date taken from a date of the text depends on the text
\* alone: it is the same calendar date in every timezone of the runtime (the
\* date built at local midnight is not moved to the day before or after by
\* the conversion to an ISO string).
C28_SameDateInEveryZone ==
  \A k \in 1..Len(returned) :
    parseDate(ocrText, tz) # Null =>
      \A offset \in TZOffsets :
        returned[k].purchase_date = parseDate(ocrText, offset)

\* C29: no line is both the source of an item of parseItems and a candidate
\* for total_amount or tax_amount in extractTotals: the lines of the items
\* region with a trailing price and the lines, among the last 15, that take
\* the tax, total or grand/amount branch with a money token are disjoint.
C29_ItemsAndTotalsDisjoint ==
  \A k \in 1..Len(returned) :
    LET ls == Lines
        n == Len(ls)
    IN \A i \in 1..ItemsEnd(ls) :
         (i > n - 15 /\ test(TrailingPricePattern, ls[i])) =>
           TotalsBranch(ls[i]) = "none"

\* C30: the fields saved by handleSubmit were extracted from the file that
\* is saved with them: no receipt is stored with one file and the fields
\* read from another, whatever files were selected and whatever OCR runs
\* were made or still under way.
C30_SavedFieldsOfSavedFile ==
  \A s \in 1..Len(run.saved) :
    run.saved[s].source = <<run.saved[s].row.file>>

============================================================================
